---- MODULE Spec2Model ----
(***************************************************************************)
(* A model of the URL shortener service (main.py and the entities,         *)
(* schemas and utils it uses).                                             *)
(*                                                                         *)
(* The store is the two tables `urls` and `clicks`.  Every request works   *)
(* on its own SQLAlchemy session: a handler reads rows into local objects  *)
(* (a snapshot) and writes them back at db.commit().  A handler is cut at  *)
(* its store accesses: one action per query or commit.                     *)
(*                                                                         *)
(*   Spec       requests of several workers interleave at store accesses   *)
(*              (several server processes on one database).                *)
(*   SeqSpec    one request at a time: the handlers are `async def`        *)
(*              without an await, so one worker runs each to completion.   *)
(*   StatsSpec  one request at a time, with more redirects of one url      *)
(*              than get_url_stats returns.                                *)
(*   ShortenSpec  create_short_url, one request at a time, with aliases    *)
(*              of every kind and a generator of two codes.                *)
(*   FaultSpec  one request at a time, with a store that may fail while    *)
(*              a redirect commits.                                        *)
(*                                                                         *)
(* What a commit does is what SQLAlchemy's unit of work sends: for a       *)
(* changed object an UPDATE, by primary key, of the changed columns with   *)
(* the values the session holds (no row matched: StaleDataError); for a    *)
(* deleted object the DELETE, by primary key, of the clicks it loaded and  *)
(* of the row, with which the store's ON DELETE CASCADE takes the clicks   *)
(* that came later.  A commit is one transaction: when the store fails in  *)
(* it, nothing of it stays.  The attribute reads after a commit are taken  *)
(* with the commit.                                                        *)
(* Click ids come from a sequence; they enter no decision of a handler.    *)
(* list_urls and root read only and are left out.                          *)
(***************************************************************************)
EXTENDS Integers, Sequences, FiniteSets, TLC

(* ------------------------------ bounds --------------------------------- *)

\* Number of request slots (concurrent workers) of Spec.
NumReqs == 2

\* The clock runs over 0..MaxTime.
MaxTime == 1

\* Largest url id the store hands out.
MaxUrlId == 2

\* Number of click rows ever inserted.
MaxClicks == 2

\* Number of click rows ever inserted under StatsSpec: more than the 10 of
\* get_url_stats.
StatsMaxClicks == 12

(* --------------------------- program constants ------------------------- *)

\* None in a nullable DateTime column / Optional[datetime] field.
NoTime == -1

\* main.py:50  max_attempts = 10
max_attempts == 10

\* main.py:140  .limit(10)
StatsLimit == 10

\* main.py:36, models.py:16-17  the limits of the length of an alias
AliasMinLen == 3

AliasMaxLen == 20

\* utils.py:7  generate_short_code(length: int = 6)
CodeLength == 6

\* utils.py:18  a top-level label of 2 to 6 letters
TldMinLen == 2

TldMaxLen == 6

(* ------------------------------ characters ----------------------------- *)

Letters ==
  {"a", "b", "c", "d", "m", "o", "s", "x", "z", "A", "B", "Y", "Q"}

Digits == {"0", "1", "3", "7"}

\* utils.py:9  string.ascii_letters + string.digits (the part the model uses)
Alphabet == Letters \cup Digits

\* A character that is no letter and no digit but numeric, for which
\* str.isalnum() is true: U+00BD, the fraction one half.
OtherNumerics == {"U+00BD"}

\* str.isalnum(): isalpha() or isdecimal() or isdigit() or isnumeric()
isalnum(c) == c \in Letters \/ c \in Digits \/ c \in OtherNumerics

(* -------------------------------- inputs ------------------------------- *)

\* Codes the generator can return: 6 characters of the alphabet.
G1 == <<"a", "B", "3", "x", "Y", "z">>

G2 == <<"Q", "7", "d", "0", "s", "A">>

\* Custom aliases of the requests; NoAlias is custom_alias = None.
NoAlias == <<>>

AliasDocs == <<"d", "o", "c", "s">>

AliasDash == <<"a", "-", "_">>

Alias20 == [i \in 1..AliasMaxLen |-> IF i = 1 THEN "z" ELSE "0"]

AliasHalf == <<"a", "U+00BD", "b">>

AliasShort == <<"a", "b">>

AliasLong == [i \in 1..(AliasMaxLen + 1) |-> "a"]

AliasBang == <<"a", "!", "c">>

ValidAliases == {AliasDocs, G1}

AliasInputs == ValidAliases \cup {AliasShort, AliasLong, AliasBang}

\* URLs: scheme, kind of host (dns | localhost | none), top-level label, rest.
NoUrl == [scheme |-> "", host |-> "none", tld |-> <<>>, rest |-> ""]

UrlA == [scheme |-> "https", host |-> "dns", tld |-> <<"c", "o", "m">>, rest |-> "/a"]

UrlB == [scheme |-> "http", host |-> "localhost", tld |-> <<>>, rest |-> ""]

UrlNoScheme == [scheme |-> "", host |-> "none", tld |-> <<>>, rest |-> "not-a-url"]

UrlLongTld ==
  [scheme |-> "https", host |-> "dns",
   tld |-> <<"a", "b", "c", "d", "o", "s", "x">>, rest |-> ""]

UrlInputs == {UrlA, UrlB, UrlNoScheme, UrlLongTld}

Reqs == 1..NumReqs

(* ------------------------------- state --------------------------------- *)

VARIABLES
  urls,      \* table urls: set of rows
  clicks,    \* table clicks: set of rows
  urlSeq,    \* largest url id handed out so far
  clickSeq,  \* largest click id handed out so far
  now,       \* the clock (datetime.now)
  pc,        \* pc[r]: where request slot r stands in its handler
  loc,       \* loc[r]: the handler's local variables / session objects
  resp       \* the response the step just taken sent, NoResp if none

vars == <<urls, clicks, urlSeq, clickSeq, now, pc, loc, resp>>

store == <<urls, clicks, urlSeq, clickSeq>>

NoRow ==
  [id |-> 0, original_url |-> NoUrl, short_code |-> <<>>, created_at |-> NoTime,
   expires_at |-> NoTime, click_count |-> 0, last_checked |-> NoTime]

NoLoc ==
  [alias |-> <<>>, code |-> <<>>, url |-> NoUrl, exp |-> NoTime, row |-> NoRow,
   last_accessed |-> NoTime, attempts |-> 0, clicks |-> {}]

\* A response: the request it answers (op, the code or alias asked for, the
\* original_url sent), its outcome and what its body carries.
\* store_access: the handler queried or wrote the store before it answered.
NoResp ==
  [op |-> "none", arg |-> <<>>, url |-> NoUrl, status |-> "none", row |-> NoRow,
   last_accessed |-> NoTime, recent_clicks |-> <<>>, location |-> NoUrl,
   store_access |-> FALSE]

Response(op, arg, status) ==
  [NoResp EXCEPT !.op = op, !.arg = arg, !.status = status, !.store_access = TRUE]

ShortenResponse(alias, url, status) ==
  [Response("shorten", alias, status) EXCEPT !.url = url]

\* The answer to a request that validation rejects: no db.query, no commit.
Rejected(alias, url, status) ==
  [ShortenResponse(alias, url, status) EXCEPT !.store_access = FALSE]

Init ==
  /\ urls = {}
  /\ clicks = {}
  /\ urlSeq = 0
  /\ clickSeq = 0
  /\ now = 0
  /\ pc = [r \in Reqs |-> "idle"]
  /\ loc = [r \in Reqs |-> NoLoc]
  /\ resp = NoResp

(* --------------------------- pure functions ---------------------------- *)

Max(S) == CHOOSE m \in S : \A x \in S : x <= m

Min2(a, b) == IF a <= b THEN a ELSE b

\* The first n elements of a sequence (a LIMIT n).
Take(s, n) == SubSeq(s, 1, Min2(n, Len(s)))

\* utils.py:13-31  the pattern, then urlparse's scheme and netloc
is_valid_url(url) ==
  LET pattern ==
        /\ url.scheme \in {"http", "https"}
        /\ \/ /\ url.host = "dns"
              /\ Len(url.tld) >= TldMinLen
              /\ Len(url.tld) <= TldMaxLen
              /\ \A i \in 1..Len(url.tld) : url.tld[i] \in Letters
           \/ url.host = "localhost"
      parsed == url.scheme /= "" /\ url.host /= "none"
  IN  pattern /\ parsed

\* models.py:16-17  Field(min_length=3, max_length=20)
alias_length_ok(v) == Len(v) >= AliasMinLen /\ Len(v) <= AliasMaxLen

\* models.py:26-36  the field validator of custom_alias
validate_custom_alias(v) ==
  \A i \in 1..Len(v) : isalnum(v[i]) \/ v[i] \in {"-", "_"}

\* utils.py:7-10  the codes random.choices can give, among the codes G the
\* specification draws from: `length` characters of the alphabet
generate_short_code(G) ==
  {c \in G : Len(c) = CodeLength /\ \A i \in 1..Len(c) : c[i] \in Alphabet}

(* ------------------------------ the store ------------------------------ *)

\* db.query(URLModel).filter(URLModel.short_code == code)
ByCode(code) == {u \in urls : u.short_code = code}

\* .first(): a row of the query, NoRow for None
First(S) == IF S = {} THEN NoRow ELSE CHOOSE u \in S : TRUE

ById(id) == {u \in urls : u.id = id}

\* The ids the primary key can give a new url row: one past the largest id in
\* the table (a rowid, free again once that row is deleted) or one past the
\* largest id ever given (a sequence).
NewUrlIds ==
  {(IF urls = {} THEN 0 ELSE Max({u.id : u \in urls})) + 1, urlSeq + 1}

\* Mutant: the url is stored with its scheme turned into https.
NewUrlRow_Https(id, url, code, exp) ==
  [id |-> id, original_url |-> [url EXCEPT !.scheme = "https"], short_code |-> code,
   created_at |-> now, expires_at |-> exp, click_count |-> 0, last_checked |-> NoTime]

\* Mutant: the expiration of the request is not stored.
NewUrlRow_NoExpiry(id, url, code, exp) ==
  [id |-> id, original_url |-> url, short_code |-> code, created_at |-> now,
   expires_at |-> NoTime, click_count |-> 0, last_checked |-> NoTime]

\* url.py:9-15  a new row: created_at and click_count take their defaults
NewUrlRow(id, url, code, exp) ==
  [id |-> id, original_url |-> url, short_code |-> code, created_at |-> now,
   expires_at |-> exp, click_count |-> 0, last_checked |-> NoTime]

\* Mutant: short_code without its unique constraint.
InsertUrlOk_NoConstraint(code) == TRUE

\* url.py:11  unique=True: the INSERT fails on a short_code the table holds
InsertUrlOk(code) == ByCode(code) = {}

\* click.py:11-17  a new click row, clicked_at by default the time of insert
NewClickRow(url_id) ==
  [id |-> clickSeq + 1, url_id |-> url_id, clicked_at |-> now]

ClicksOf(url_id) == {c \in clicks : c.url_id = url_id}

\* Mutant: the expiration check left out.
IsExpired_Never(row, t) == FALSE

\* main.py:97-105  expires_at set and earlier than now
IsExpired(row, t) == row.expires_at /= NoTime /\ row.expires_at < t

(* ------------------------------ requests ------------------------------- *)

\* The handler of slot r returns: resp is the response of the step just taken.
Finish(r, response) ==
  /\ pc' = [pc EXCEPT ![r] = "idle"]
  /\ loc' = [loc EXCEPT ![r] = NoLoc]
  /\ resp' = response

\* The handler of slot r goes on to its next store access.
Goto(r, label, locals) ==
  /\ pc' = [pc EXCEPT ![r] = label]
  /\ loc' = [loc EXCEPT ![r] = locals]
  /\ resp' = NoResp

\* What request validation (models.py:14-36) and main.py:30-40 reject before
\* the store is touched; "ok" when the request passes.
ShortenValidation(url, alias) ==
  IF alias /= NoAlias /\ ~(alias_length_ok(alias) /\ validate_custom_alias(alias))
    THEN "InvalidAlias"
  ELSE IF ~is_valid_url(url) THEN "InvalidURL"
  ELSE IF alias /= NoAlias /\ (Len(alias) < AliasMinLen \/ Len(alias) > AliasMaxLen)
    THEN "InvalidAlias"
  ELSE "ok"

\* Mutant: the pre-check of the alias left out.
AliasExists_Never(alias) == FALSE

\* main.py:43-44  the pre-check: a row with that short_code exists
AliasExists(alias) == First(ByCode(alias)) /= NoRow

\* main.py:24-47  create_short_url with a custom alias, up to the pre-check
ShortenAlias(r, url, alias, exp) ==
  /\ pc[r] = "idle"
  /\ alias /= NoAlias
  /\ LET v == ShortenValidation(url, alias)
     IN  IF v /= "ok" THEN Finish(r, Rejected(alias, url, v))
         ELSE IF AliasExists(alias)
           THEN Finish(r, ShortenResponse(alias, url, "AliasConflict"))
         ELSE Goto(r, "insert",
                   [NoLoc EXCEPT !.alias = alias, !.code = alias, !.url = url,
                                 !.exp = exp])
  /\ UNCHANGED <<store, now>>

\* main.py:24-33, 48-50  create_short_url without an alias, up to the loop
ShortenGenerated(r, url, exp) ==
  /\ pc[r] = "idle"
  /\ LET v == ShortenValidation(url, NoAlias)
     IN  IF v /= "ok" THEN Finish(r, Rejected(NoAlias, url, v))
         ELSE Goto(r, "generate", [NoLoc EXCEPT !.url = url, !.exp = exp])
  /\ UNCHANGED <<store, now>>

\* Mutant: the loop gives up one pass late.
LastAttempt_OneMore(attempt) == attempt = max_attempts

\* main.py:56  attempt == max_attempts - 1, attempt counted from 0
LastAttempt(attempt) == attempt = max_attempts - 1

\* main.py:51-57  one pass of the loop: generate a code and look it up
GenerateAttempt(r, G) ==
  /\ pc[r] = "generate"
  /\ \E code \in generate_short_code(G) :
       IF First(ByCode(code)) = NoRow
         THEN Goto(r, "insert", [loc[r] EXCEPT !.code = code])
       ELSE IF LastAttempt(loc[r].attempts)
         THEN Finish(r, ShortenResponse(NoAlias, loc[r].url, "GenerationExhausted"))
       ELSE Goto(r, "generate", [loc[r] EXCEPT !.code = code, !.attempts = @ + 1])
  /\ UNCHANGED <<store, now>>

\* Mutant: the new row is added to the session and never committed.
InsertUrl_NoCommit(row) == urls

\* main.py:66-67  db.add(new_url); db.commit(): the one write of the handler
InsertUrl(row) == urls \cup {row}

\* main.py:60-82  the insert, its commit, the refresh and the response
InsertCommit(r) ==
  /\ pc[r] = "insert"
  /\ IF InsertUrlOk(loc[r].code)
       THEN \E id \in NewUrlIds :
              /\ id <= MaxUrlId
              /\ LET row == NewUrlRow(id, loc[r].url, loc[r].code, loc[r].exp)
                 IN  /\ urls' = InsertUrl(row)
                     /\ urlSeq' = IF id > urlSeq THEN id ELSE urlSeq
                     /\ Finish(r, [ShortenResponse(loc[r].alias, loc[r].url, "Created")
                                     EXCEPT !.row = row])
       ELSE /\ UNCHANGED <<urls, urlSeq>>
            /\ Finish(r, ShortenResponse(loc[r].alias, loc[r].url, "PersistenceError"))
  /\ UNCHANGED <<clicks, clickSeq, now>>

\* main.py:86-117  redirect_to_url up to the commit
ResolveLookup(r, code, maxClicks) ==
  /\ pc[r] = "idle"
  /\ clickSeq < maxClicks
  /\ LET url_entry == First(ByCode(code))
     IN  IF url_entry = NoRow
           THEN Finish(r, Response("resolve", code, "NotFound"))
         ELSE IF IsExpired(url_entry, now)
           THEN Finish(r, Response("resolve", code, "Expired"))
         ELSE Goto(r, "resolve_commit",
                   [NoLoc EXCEPT !.code = code,
                                 !.row = [url_entry EXCEPT !.click_count = @ + 1],
                                 !.last_accessed = now])
  /\ UNCHANGED <<store, now>>

\* Mutant: the UPDATE also sets created_at to the time of the redirect.
UpdateUrl_TouchCreated(row, entry) ==
  [row EXCEPT !.click_count = entry.click_count, !.created_at = now]

\* Mutant: the redirect does not count the click.
UpdateUrl_NoIncrement(row, entry) == row

\* The UPDATE the flush sends for the session's url_entry: the mapped columns
\* that changed, with the values the session holds, on the row of that id.
\* last_accessed is no column of URLModel (url.py:9-15) and is not written.
UpdateUrl(row, entry) == [row EXCEPT !.click_count = entry.click_count]

\* Mutant: a commit after the click is added and another after the count.
ResolveUnits_CommitEach == <<{"insert"}, {"update"}>>

\* main.py:108-120  the writes of the handler, by the commit that holds them:
\* one db.commit() for the click row and the count
ResolveUnits == <<{"update", "insert"}>>

\* The writes that stay when the first n commits went through and the store
\* failed after them: a transaction that fails is rolled back as a whole.
Committed(units, n) == UNION {units[i] : i \in 1..n}

\* Mutant: an UPDATE that matches no row goes unnoticed.
StaleUpdate_Ignored(entry) == FALSE

\* The flush of the session's url_entry: its UPDATE, by primary key, matches
\* no row (the row was deleted meanwhile) and the flush raises.
StaleUpdate(entry) == ById(entry.id) = {}

\* main.py:119-123  the commit (UPDATE urls, INSERT clicks) and the response,
\* which reads original_url again from the row of that id.  F: whether the
\* store may fail (TRUE) during the commit.
ResolveCommit(r, F) ==
  /\ pc[r] = "resolve_commit"
  /\ LET entry == loc[r].row
         hit == ById(entry.id)
     IN  IF StaleUpdate(entry)
           THEN /\ UNCHANGED store
                /\ Finish(r, Response("resolve", loc[r].code, "PersistenceError"))
           ELSE \E n \in 0..Len(ResolveUnits) :
                  /\ n < Len(ResolveUnits) => TRUE \in F
                  /\ LET done == Committed(ResolveUnits, n)
                     IN  /\ urls' = IF "update" \in done
                                      THEN {IF u \in hit THEN UpdateUrl(u, entry) ELSE u :
                                              u \in urls}
                                    ELSE urls
                         /\ clicks' = IF "insert" \in done
                                        THEN clicks \cup {NewClickRow(entry.id)}
                                      ELSE clicks
                         /\ clickSeq' = IF "insert" \in done THEN clickSeq + 1
                                        ELSE clickSeq
                         /\ UNCHANGED urlSeq
                         /\ IF n = Len(ResolveUnits)
                              THEN Finish(r, [Response("resolve", loc[r].code, "Redirect")
                                                EXCEPT !.location =
                                                  First(hit).original_url])
                            ELSE Finish(r, Response("resolve", loc[r].code,
                                                    "PersistenceError"))
  /\ UNCHANGED now

\* main.py:127-133  get_url_stats: the lookup of the url row
StatsLookup(r, code) ==
  /\ pc[r] = "idle"
  /\ LET url_entry == First(ByCode(code))
     IN  IF url_entry = NoRow
           THEN Finish(r, Response("stats", code, "NotFound"))
         ELSE Goto(r, "stats_clicks", [NoLoc EXCEPT !.code = code, !.row = url_entry])
  /\ UNCHANGED <<store, now>>

\* ORDER BY clicked_at DESC: c comes before d.  Rows of equal clicked_at come
\* in an order the store chooses: by id, ascending or descending.
Before(c, d, ties) ==
  \/ c.clicked_at > d.clicked_at
  \/ /\ c.clicked_at = d.clicked_at
     /\ IF ties = "asc" THEN c.id <= d.id ELSE c.id >= d.id

RECURSIVE OrderDesc(_, _)
OrderDesc(S, ties) ==
  IF S = {} THEN <<>>
  ELSE LET c == CHOOSE x \in S : \A y \in S : Before(x, y, ties)
       IN  <<c>> \o OrderDesc(S \ {c}, ties)

\* Mutant: the query without its LIMIT.
RecentClicks_NoLimit(url_id, ties) == OrderDesc(ClicksOf(url_id), ties)

\* main.py:136-142  the clicks of the url, newest first, at most 10
RecentClicks(url_id, ties) == Take(OrderDesc(ClicksOf(url_id), ties), StatsLimit)

\* main.py:136-164  the query of the clicks and the response
StatsClicks(r) ==
  /\ pc[r] = "stats_clicks"
  /\ \E ties \in {"asc", "desc"} :
       Finish(r, [Response("stats", loc[r].code, "Stats")
                    EXCEPT !.row = loc[r].row,
                           !.last_accessed = loc[r].row.last_checked,
                           !.recent_clicks = RecentClicks(loc[r].row.id, ties)])
  /\ UNCHANGED <<store, now>>

\* main.py:191-198  delete_url: the lookup, and db.delete(url_entry), which
\* loads the clicks of the row for the cascade of the relationship (url.py:18)
DeleteLookup(r, code) ==
  /\ pc[r] = "idle"
  /\ LET url_entry == First(ByCode(code))
     IN  IF url_entry = NoRow
           THEN Finish(r, Response("delete", code, "NotFound"))
         ELSE Goto(r, "delete_commit",
                   [NoLoc EXCEPT !.code = code, !.row = url_entry,
                                 !.clicks = ClicksOf(url_entry.id)])
  /\ UNCHANGED <<store, now>>

\* Mutant: the store does not enforce the foreign key.
ForeignKeysEnforced_Off == FALSE

\* click.py:14  ForeignKey("urls.id", ondelete="CASCADE"): the store enforces
\* the foreign key of the schema, so that its DELETE of a url row takes the
\* click rows of that url with it.
ForeignKeysEnforced == TRUE

\* Mutant: the delete without the cascade to the clicks.
DeleteCascade_None(url_id, loaded) == clicks

\* url.py:18, click.py:14  the cascade: the clicks the session loaded go, and
\* the store's ON DELETE CASCADE takes those that came after the load.
\* What is left of the clicks.
DeleteCascade(url_id, loaded) ==
  {c \in clicks : c \notin loaded /\ ~(ForeignKeysEnforced /\ c.url_id = url_id)}

\* main.py:198-201  the commit: DELETE of the row of that id and of its clicks
DeleteCommit(r) ==
  /\ pc[r] = "delete_commit"
  /\ urls' = urls \ ById(loc[r].row.id)
  /\ clicks' = DeleteCascade(loc[r].row.id, loc[r].clicks)
  /\ UNCHANGED <<urlSeq, clickSeq, now>>
  /\ Finish(r, Response("delete", loc[r].code, "Deleted"))

\* Time passes.
Tick ==
  /\ now < MaxTime
  /\ now' = now + 1
  /\ resp' = NoResp
  /\ UNCHANGED <<store, pc, loc>>

\* The requests that write, of the slots R, with inputs from U (urls),
\* A (aliases), E and EG (expirations), C (codes), G (generator), at most
\* maxClicks clicks, and F, whether the store may fail in a redirect's commit.
Writers(R, U, A, E, EG, C, G, maxClicks, F) ==
  \/ \E r \in R, url \in U, alias \in A, exp \in E : ShortenAlias(r, url, alias, exp)
  \/ \E r \in R, url \in U, exp \in EG : ShortenGenerated(r, url, exp)
  \/ \E r \in R : GenerateAttempt(r, G)
  \/ \E r \in R : InsertCommit(r)
  \/ \E r \in R, code \in C : ResolveLookup(r, code, maxClicks)
  \/ \E r \in R : ResolveCommit(r, F)
  \/ \E r \in R, code \in C : DeleteLookup(r, code)
  \/ \E r \in R : DeleteCommit(r)
  \/ Tick

\* get_url_stats, which only reads.
Readers(R, C) ==
  \/ \E r \in R, code \in C : StatsLookup(r, code)
  \/ \E r \in R : StatsClicks(r)

(* --------------------------- specifications ---------------------------- *)

ValidUrls == {UrlA, UrlB}

ExpiryInputs == {NoTime, 0}

\* Inputs of the concurrent specification: every request is about one code,
\* G1, as a custom alias or as the generator's code.
ConcUrls == {UrlA, UrlNoScheme}

ConcAliases == {G1, AliasBang}

ConcCodes == {G1}

\* Requests of NumReqs workers interleave at their store accesses.
Next ==
  Writers(Reqs, ConcUrls, ConcAliases, ExpiryInputs, {NoTime}, ConcCodes, {G1}, MaxClicks,
          {FALSE})

Spec == Init /\ [][Next]_vars

\* Inputs of the sequential specification.
SeqCodes == {AliasDocs, G1}

\* One request at a time.
SeqNext ==
  \/ Writers({1}, UrlInputs, AliasInputs, ExpiryInputs, {NoTime}, SeqCodes, {G1}, MaxClicks,
             {FALSE})
  \/ Readers({1}, SeqCodes)

SeqSpec == Init /\ [][SeqNext]_vars

\* One request at a time, with enough redirects of one code (AliasDocs) to
\* pass the limit of get_url_stats; the first MaxClicks clicks may be those of
\* another code (G1).
StatsNext ==
  \/ \E url \in {UrlA}, alias \in SeqCodes : ShortenAlias(1, url, alias, NoTime)
  \/ InsertCommit(1)
  \/ ResolveLookup(1, AliasDocs, StatsMaxClicks)
  \/ ResolveLookup(1, G1, MaxClicks)
  \/ ResolveCommit(1, {FALSE})
  \/ Readers({1}, SeqCodes)
  \/ Tick

StatsSpec == Init /\ [][StatsNext]_vars

\* One request at a time, with a store that may fail while a redirect commits.
FaultNext ==
  \/ \E alias \in SeqCodes, exp \in ExpiryInputs : ShortenAlias(1, UrlA, alias, exp)
  \/ InsertCommit(1)
  \/ \E code \in SeqCodes : ResolveLookup(1, code, MaxClicks)
  \/ ResolveCommit(1, {FALSE, TRUE})
  \/ \E code \in SeqCodes : DeleteLookup(1, code)
  \/ DeleteCommit(1)
  \/ Tick

FaultSpec == Init /\ [][FaultNext]_vars

\* Inputs of the specification of create_short_url: aliases of every length
\* class and character class, and a generator of two codes.
ShortenAliases ==
  {AliasDocs, AliasDash, Alias20, G1, AliasHalf, AliasShort, AliasLong, AliasBang}

ShortenCodes == {AliasDocs, AliasDash, Alias20, G1, G2, AliasHalf}

ShortenUrls == {UrlA, UrlNoScheme}

\* One request at a time: shorten requests, and deletes that free codes.
ShortenNext ==
  \/ \E url \in ShortenUrls, alias \in ShortenAliases, exp \in ExpiryInputs :
       ShortenAlias(1, url, alias, exp)
  \/ \E url \in ShortenUrls, exp \in ExpiryInputs : ShortenGenerated(1, url, exp)
  \/ GenerateAttempt(1, {G1, G2})
  \/ InsertCommit(1)
  \/ \E code \in ShortenCodes : DeleteLookup(1, code)
  \/ DeleteCommit(1)
  \/ Tick

ShortenSpec == Init /\ [][ShortenNext]_vars

(* ------------------------------- claims -------------------------------- *)

\* In this step a handler `op` on `code` starts and returns at once (no slot
\* moves: every other step moves a slot or sends no response).
ReturnsAtOnce(op, code) ==
  pc' = pc /\ resp' /= NoResp /\ resp'.op = op /\ resp'.arg = code

\* In this step a handler starts on `code` and goes on to `label`.
GoesOn(label, code) ==
  \E r \in Reqs : pc[r] = "idle" /\ pc'[r] = label /\ loc'[r].code = code

\* In this step the handler of slot r returns from `label`.
ReturnsFrom(r, label) == pc[r] = label /\ pc'[r] = "idle"

StoreUnchanged == UNCHANGED <<urls, clicks>>

\* C1: in every reachable state of the concurrent specification no two url
\* rows have the same short_code.
C1_UniqueShortCode ==
  \A u \in urls : \A v \in urls : u.short_code = v.short_code => u = v

\* Two requests raced for one code: the later insert was refused, the row of
\* the earlier one is there.
C1_Witness ==
  /\ resp.op = "shorten"
  /\ resp.status = "PersistenceError"
  /\ \E u \in urls : u.short_code = G1

\* C2: no increment is lost: once no redirect is in flight, every url row's
\* click_count equals the number of redirects of it that succeeded, each of
\* which left one click row of that url.
C2_NoLostIncrement ==
  (\A r \in Reqs : pc[r] /= "resolve_commit")
    => \A u \in urls : u.click_count = Cardinality(ClicksOf(u.id))

\* C3: a shorten request with a custom alias that loses the race for the alias
\* ends with AliasConflict: its outcome is never a persistence error.
C3_DuplicateAliasIsConflict ==
  (resp.op = "shorten" /\ resp.arg /= NoAlias)
    => resp.status \in {"Created", "AliasConflict", "InvalidURL", "InvalidAlias"}

\* C4: a redirect that succeeds adds 1 to the click_count of the row of its
\* code and adds exactly one click row, owned by that row; and after N
\* redirects of a row made one after the other its click_count is N and it
\* has N click rows.
C4_ResolveStep ==
  \A r \in Reqs :
    (ReturnsFrom(r, "resolve_commit") /\ resp'.status = "Redirect") =>
      \E u \in ByCode(resp'.arg) :
        /\ \E v \in urls' :
             /\ v.id = u.id
             /\ v.short_code = u.short_code
             /\ v.click_count = u.click_count + 1
        /\ \E c \in clicks' :
             /\ c \notin clicks
             /\ c.url_id = u.id
             /\ clicks' = clicks \cup {c}

C4_CountIsClicks ==
  \A u \in urls :
    (\A r \in Reqs : pc[r] /= "resolve_commit")
      => u.click_count = Cardinality(ClicksOf(u.id))

C4_ResolveCounts == [][C4_ResolveStep]_vars /\ [](C4_CountIsClicks)

\* The second redirect in a row of one url has returned.
C4_Witness ==
  /\ resp.op = "resolve"
  /\ resp.status = "Redirect"
  /\ \E u \in urls :
       /\ u.short_code = resp.arg
       /\ u.click_count = MaxClicks
       /\ Cardinality(ClicksOf(u.id)) = MaxClicks

\* C5: a redirect of a code without a row ends NotFound, a redirect of a row
\* whose expires_at is set and earlier than now ends Expired, and neither
\* changes a row; a row created with expires_at in the past keeps
\* click_count 0 and has no click.
C5_LookupStep ==
  \A code \in SeqCodes :
    (ReturnsAtOnce("resolve", code) \/ GoesOn("resolve_commit", code)) =>
      /\ ByCode(code) = {} =>
           /\ ReturnsAtOnce("resolve", code)
           /\ resp'.status = "NotFound"
           /\ StoreUnchanged
      /\ (\E u \in ByCode(code) : u.expires_at /= NoTime /\ u.expires_at < now) =>
           /\ ReturnsAtOnce("resolve", code)
           /\ resp'.status = "Expired"
           /\ StoreUnchanged

C5_BornExpired ==
  \A u \in urls :
    (u.expires_at /= NoTime /\ u.expires_at < u.created_at)
      => u.click_count = 0 /\ ClicksOf(u.id) = {}

C5_FailedResolve == [][C5_LookupStep]_vars /\ [](C5_BornExpired)

\* A redirect of a row created already expired has ended Expired.
C5_Witness ==
  /\ resp.op = "resolve"
  /\ resp.status = "Expired"
  /\ \E u \in urls :
       /\ u.short_code = resp.arg
       /\ u.expires_at < u.created_at
       /\ u.click_count = 0

\* C6: no step lowers the click_count of a url row that is there before and
\* after the step.
C6_Step ==
  \A u \in urls : \A v \in urls' :
    (v.id = u.id /\ v.short_code = u.short_code /\ v.created_at = u.created_at)
      => v.click_count >= u.click_count

C6_ClickCountNeverDecreases == [][C6_Step]_vars

\* C7: a shorten request with a valid url and a custom alias that is the
\* short_code of a row (expired or not) ends AliasConflict and changes no row.
C7_AliasStep ==
  \A alias \in AliasInputs :
    (/\ ByCode(alias) /= {}
     /\ \/ ReturnsAtOnce("shorten", alias) /\ resp'.url \in ValidUrls
        \/ GoesOn("insert", alias)) =>
      /\ ReturnsAtOnce("shorten", alias)
      /\ resp'.status = "AliasConflict"
      /\ StoreUnchanged

C7_TakenAliasIsConflict == [][C7_AliasStep]_vars

\* The alias of an expired row was asked for again.
C7_Witness ==
  /\ resp.op = "shorten"
  /\ resp.status = "AliasConflict"
  /\ \E u \in urls :
       /\ u.short_code = resp.arg
       /\ u.expires_at /= NoTime
       /\ u.expires_at < now

\* C8: the stats of a row that was redirected at least once report the time
\* of its last redirect, not an unset value.
C8_LastAccessedReported ==
  (resp.op = "stats" /\ resp.status = "Stats" /\ resp.row.click_count > 0)
    => resp.last_accessed /= NoTime

\* C9: a delete of the code of a row removes that row and its clicks and
\* nothing else, after which no row has the code and no click the row's id;
\* a redirect, stats or delete request on a code without a row ends NotFound
\* and changes no row.
C9_Handlers ==
  {<<"resolve", "resolve_commit">>, <<"stats", "stats_clicks">>,
   <<"delete", "delete_commit">>}

C9_DeleteStep ==
  \A code \in SeqCodes :
    /\ \A r \in Reqs :
         (ReturnsFrom(r, "delete_commit") /\ loc[r].code = code) =>
           \E u \in ByCode(code) :
             /\ resp'.status = "Deleted"
             /\ urls' = urls \ {u}
             /\ clicks' = clicks \ ClicksOf(u.id)
             /\ \A v \in urls' : v.short_code /= code
             /\ \A c \in clicks' : c.url_id /= u.id
    /\ (ReturnsAtOnce("delete", code) /\ ByCode(code) /= {}) => FALSE
    /\ \A h \in C9_Handlers :
         ((ReturnsAtOnce(h[1], code) \/ GoesOn(h[2], code)) /\ ByCode(code) = {}) =>
           /\ ReturnsAtOnce(h[1], code)
           /\ resp'.status = "NotFound"
           /\ StoreUnchanged

C9_DeleteCascades == [][C9_DeleteStep]_vars

\* A row that had clicks was deleted: its code has no row and no click is left
\* with its id.
C9_Witness ==
  /\ resp.op = "delete"
  /\ resp.status = "Deleted"
  /\ clickSeq > 0
  /\ ByCode(resp.arg) = {}
  /\ clicks = {}

\* C10: the clicks stats return are at most 10, all of that url, each once,
\* newest first, as many as min(10, the url's clicks), none older than a click
\* of the url that is left out; and stats change no row.
C10_StatsBody ==
  (resp.op = "stats" /\ resp.status = "Stats") =>
    LET out == resp.recent_clicks
        all == ClicksOf(resp.row.id)
        got == {out[i] : i \in 1..Len(out)}
    IN  /\ Len(out) <= 10
        /\ got \subseteq all
        /\ Cardinality(got) = Len(out)
        /\ Len(out) = (IF Cardinality(all) < 10 THEN Cardinality(all) ELSE 10)
        /\ \A i \in 1..Len(out) : \A j \in 1..Len(out) :
             i < j => out[i].clicked_at >= out[j].clicked_at
        /\ \A c \in all \ got : \A d \in got : c.clicked_at <= d.clicked_at

C10_StatsStep ==
  \A r \in Reqs :
    (pc'[r] = "stats_clicks" \/ pc[r] = "stats_clicks" \/ resp'.op = "stats")
      => StoreUnchanged

C10_StatsRecentClicks == [](C10_StatsBody) /\ [][C10_StatsStep]_vars

\* Stats of a url with more than 10 clicks, clicked at different times.
C10_Witness ==
  /\ resp.op = "stats"
  /\ resp.status = "Stats"
  /\ Len(resp.recent_clicks) = 10
  /\ Cardinality(ClicksOf(resp.row.id)) > 10
  /\ resp.recent_clicks[1].clicked_at > resp.recent_clicks[10].clicked_at
  /\ \E c \in clicks : c.url_id /= resp.row.id

\* An alias as the contract wants it: 3 to 20 characters, each a letter, a
\* digit, '-' or '_'.
AliasWellFormed(a) ==
  /\ Len(a) >= 3
  /\ Len(a) <= 20
  /\ \A i \in 1..Len(a) : a[i] \in Letters \/ a[i] \in Digits \/ a[i] \in {"-", "_"}

\* C11: a shorten request with a well-formed alias that no row has, and a
\* valid url, is not turned down: it goes on to the insert, which answers
\* Created with a row whose short_code is the alias, whose url and expiration
\* are the request's and whose click_count is 0, and that row is the one row
\* the store gains.
C11_Pending ==
  (pc[1] = "insert" /\ loc[1].alias /= NoAlias /\ AliasWellFormed(loc[1].alias)) =>
    /\ loc[1].code = loc[1].alias
    /\ loc[1].url \in ValidUrls
    /\ ByCode(loc[1].alias) = {}

C11_Accepted ==
  \A alias \in ShortenAliases :
    (/\ AliasWellFormed(alias)
     /\ ByCode(alias) = {}
     /\ ReturnsAtOnce("shorten", alias)) => resp'.url \notin ValidUrls

C11_Inserted ==
  (ReturnsFrom(1, "insert") /\ AliasWellFormed(loc[1].alias)) =>
    /\ resp'.op = "shorten"
    /\ resp'.status = "Created"
    /\ resp'.row.short_code = loc[1].alias
    /\ resp'.row.original_url = loc[1].url
    /\ resp'.row.expires_at = loc[1].exp
    /\ resp'.row.click_count = 0
    /\ resp'.row \notin urls
    /\ urls' = urls \cup {resp'.row}
    /\ clicks' = clicks

C11_CustomAliasCreated ==
  [](C11_Pending) /\ [][C11_Accepted /\ C11_Inserted]_vars

\* A 20-character alias was stored with the expiration of the request.
C11_Witness ==
  /\ resp.op = "shorten"
  /\ resp.status = "Created"
  /\ resp.arg = Alias20
  /\ resp.row.expires_at /= NoTime
  /\ resp.row \in urls

\* C12: a shorten request whose alias is not well-formed never goes on to the
\* store: it is answered InvalidAlias at once, with no lookup and no write.
C12_Step ==
  \A alias \in ShortenAliases :
    ~AliasWellFormed(alias) =>
      /\ ~(pc[1] = "idle" /\ pc'[1] = "insert" /\ loc'[1].alias = alias)
      /\ ReturnsAtOnce("shorten", alias) =>
            /\ resp'.status = "InvalidAlias"
            /\ ~resp'.store_access
            /\ StoreUnchanged

C12_InvalidAliasRejected == [][C12_Step]_vars

\* C13: the row a successful shorten returns holds the url of the request
\* under the returned code; no step changes the original_url or the short_code
\* of a row; and a resolve of a code whose row is there and not expired ends
\* in a redirect to exactly the original_url of that row, whatever other rows
\* and clicks there are.
C13_Created ==
  (resp'.op = "shorten" /\ resp'.status = "Created") =>
    /\ resp'.row.original_url = resp'.url
    /\ resp'.row \in urls'
    /\ resp'.arg /= NoAlias => resp'.row.short_code = resp'.arg

C13_Kept ==
  \A u \in urls : \A v \in urls' :
    v.id = u.id => v.original_url = u.original_url /\ v.short_code = u.short_code

C13_Resolved ==
  \A code \in SeqCodes : \A u \in urls :
    (u.short_code = code /\ ~(u.expires_at /= NoTime /\ u.expires_at < now)) =>
      /\ ~ReturnsAtOnce("resolve", code)
      /\ (ReturnsFrom(1, "resolve_commit") /\ loc[1].code = code) =>
            /\ resp'.op = "resolve"
            /\ resp'.arg = code
            /\ resp'.status = "Redirect"
            /\ resp'.location = u.original_url

C13_RoundTrip == [][C13_Created /\ C13_Kept /\ C13_Resolved]_vars

\* A redirect of one code to its url, while another code with another url
\* has been created and resolved.
C13_Witness ==
  /\ resp.op = "resolve"
  /\ resp.status = "Redirect"
  /\ resp.arg = G1
  /\ resp.location = UrlB
  /\ \E u \in urls :
       /\ u.short_code = AliasDocs
       /\ u.original_url = UrlA
       /\ u.id = 1
       /\ \E c \in clicks : c.url_id = u.id

\* C14: without an alias, shorten makes at most 10 passes of generate and
\* look up: a pass whose code no row has ends the loop with that code, a pass
\* whose code is taken is followed by another pass unless it was the 10th,
\* and GenerationExhausted is answered exactly by a 10th pass whose code is
\* taken, with nothing inserted.
C14_Attempts ==
  pc[1] = "generate" =>
    /\ loc[1].alias = NoAlias
    /\ loc[1].attempts >= 0
    /\ loc[1].attempts <= 9
    /\ loc[1].attempts > 0 => \E u \in urls : u.short_code = loc[1].code

C14_Pass ==
  (pc[1] = "generate" /\ now' = now) =>
    /\ StoreUnchanged
    /\ \/ /\ pc'[1] = "insert"
          /\ Len(loc'[1].code) = 6
          /\ \A u \in urls : u.short_code /= loc'[1].code
          /\ loc'[1].attempts = loc[1].attempts
          /\ resp' = NoResp
       \/ /\ pc'[1] = "generate"
          /\ loc[1].attempts < 9
          /\ loc'[1].attempts = loc[1].attempts + 1
          /\ \E u \in urls : u.short_code = loc'[1].code
          /\ resp' = NoResp
       \/ /\ pc'[1] = "idle"
          /\ loc[1].attempts = 9
          /\ \E u \in urls : u.short_code \in {G1, G2}
          /\ resp'.op = "shorten"
          /\ resp'.status = "GenerationExhausted"

C14_OnlyTheLoopExhausts ==
  (resp' /= NoResp /\ resp'.status = "GenerationExhausted") => pc[1] = "generate"

C14_GenerationBounded ==
  [](C14_Attempts) /\ [][C14_Pass /\ C14_OnlyTheLoopExhausts]_vars

\* Ten passes in a row met a taken code.
C14_Witness ==
  /\ resp.op = "shorten"
  /\ resp.status = "GenerationExhausted"
  /\ \E u \in urls : u.short_code = G1
  /\ \E u \in urls : u.short_code = G2

\* C15: a shorten call writes once, the insert of its row, when it answers
\* Created, and never otherwise: the steps before its answer and the answers
\* InvalidURL, InvalidAlias, AliasConflict and GenerationExhausted leave the
\* url rows and the click rows as they were.
C15_Failure ==
  (/\ resp'.op = "shorten"
   /\ resp'.status \in {"InvalidURL", "InvalidAlias", "AliasConflict",
                        "GenerationExhausted"}) => StoreUnchanged

C15_BeforeTheAnswer ==
  (pc'[1] \in {"generate", "insert"}) => StoreUnchanged

C15_Success ==
  (resp'.op = "shorten" /\ resp'.status = "Created") =>
    /\ pc[1] = "insert"
    /\ \E row \in urls' : row \notin urls /\ urls' = urls \cup {row}
    /\ clicks' = clicks

C15_OneWrite == [][C15_Failure /\ C15_BeforeTheAnswer /\ C15_Success]_vars

\* A request for a taken alias was turned down with the store full.
C15_Witness ==
  /\ resp.op = "shorten"
  /\ resp.status = "AliasConflict"
  /\ Cardinality(urls) = MaxUrlId
  /\ \E u \in urls : u.short_code = resp.arg

\* C16: the commit of a redirect leaves both its click row and its count, or,
\* when the store fails, neither, and then answers with a persistence error;
\* so in every state of the store click_count is the number of the url's
\* click rows: no click without its increment, no increment without its
\* click.
C16_CommitStep ==
  ReturnsFrom(1, "resolve_commit") =>
    \/ /\ resp'.status = "Redirect"
       /\ \E c \in clicks' :
            /\ c \notin clicks
            /\ c.url_id = loc[1].row.id
            /\ clicks' = clicks \cup {c}
       /\ \E v \in urls' :
            /\ v.id = loc[1].row.id
            /\ v.click_count = loc[1].row.click_count
            /\ \E u \in urls : u.id = v.id /\ v.click_count = u.click_count + 1
    \/ /\ resp'.status = "PersistenceError"
       /\ StoreUnchanged

C16_Paired ==
  \A u \in urls : u.click_count = Cardinality({c \in clicks : c.url_id = u.id})

C16_AtomicResolve == [](C16_Paired) /\ [][C16_CommitStep]_vars

\* The store failed in the commit of the second redirect of a url: the first
\* click and its count are there, nothing of the second.
C16_Witness ==
  /\ resp.op = "resolve"
  /\ resp.status = "PersistenceError"
  /\ \E u \in urls :
       /\ u.short_code = resp.arg
       /\ u.click_count = 1
       /\ Cardinality({c \in clicks : c.url_id = u.id}) = 1

\* C17: in every reachable state each click row's url_id is the id of exactly
\* one url row, and the commit of a delete leaves no click row of the url it
\* deleted, also when a redirect of that code is between its lookup and its
\* commit.
C17_Owned ==
  \A c \in clicks : Cardinality({u \in urls : u.id = c.url_id}) = 1

C17_DeleteStep ==
  \A r \in Reqs :
    ReturnsFrom(r, "delete_commit") =>
      /\ \A u \in urls' : u.id /= loc[r].row.id
      /\ \A c \in clicks' : c.url_id /= loc[r].row.id

C17_ReferentialIntegrity == [](C17_Owned) /\ [][C17_DeleteStep]_vars

\* A redirect found its row deleted, with the row's clicks, when it came to
\* commit.
C17_Witness ==
  /\ resp.op = "resolve"
  /\ resp.status = "PersistenceError"
  /\ \A u \in urls : u.short_code /= resp.arg
  /\ clickSeq > 0
  /\ clicks = {}

\* C18: a successful redirect of a code leaves every url row of another code
\* as it was, changes nothing but click_count and the last-accessed time in
\* the row of the code, keeps every click row there was and adds one; and no
\* step but the commit of a delete removes or changes a click row.
C18_ResolveStep ==
  (ReturnsFrom(1, "resolve_commit") /\ resp'.status = "Redirect") =>
    /\ \A u \in urls : u.short_code /= resp'.arg => u \in urls'
    /\ \A u \in urls :
         u.short_code = resp'.arg =>
           \E v \in urls' :
             /\ v.id = u.id
             /\ v.short_code = u.short_code
             /\ v.original_url = u.original_url
             /\ v.created_at = u.created_at
             /\ v.expires_at = u.expires_at
    /\ Cardinality(urls') = Cardinality(urls)
    /\ clicks \subseteq clicks'
    /\ Cardinality(clicks' \ clicks) = 1

C18_ClicksKept ==
  pc[1] /= "delete_commit" => clicks \subseteq clicks'

C18_ResolveFrame == [][C18_ResolveStep /\ C18_ClicksKept]_vars

\* A redirect after time has passed, with a row and a click of another code
\* in the store.
C18_Witness ==
  /\ resp.op = "resolve"
  /\ resp.status = "Redirect"
  /\ now > 0
  /\ Cardinality(urls) = 2
  /\ \E u \in urls :
       /\ u.short_code = resp.arg
       /\ u.created_at < now
       /\ \E c \in clicks : c.url_id /= u.id
       /\ \E c \in clicks : c.url_id = u.id

\* C19: the commit of a delete leaves no row of the code and no click of the
\* deleted row, so a later shorten with that code as alias is not a conflict;
\* the row it creates has click_count 0 and no click row carries its id, also
\* when the store gives it the id of the deleted row; and the clicks stats
\* return are click rows of the row they are about, none older than the row.
C19_Deleted ==
  ReturnsFrom(1, "delete_commit") =>
    /\ resp'.status = "Deleted"
    /\ \A u \in urls' : u.short_code /= loc[1].code
    /\ \A c \in clicks' : c.url_id /= loc[1].row.id

C19_NoConflict ==
  (resp'.op = "shorten" /\ resp'.status = "AliasConflict") =>
    \E u \in urls : u.short_code = resp'.arg

C19_Created ==
  (resp'.op = "shorten" /\ resp'.status = "Created") =>
    /\ resp'.row.click_count = 0
    /\ \A c \in clicks' : c.url_id /= resp'.row.id

C19_Stats ==
  (resp'.op = "stats" /\ resp'.status = "Stats") =>
    \A i \in 1..Len(resp'.recent_clicks) :
      /\ resp'.recent_clicks[i] \in clicks
      /\ resp'.recent_clicks[i].url_id = resp'.row.id
      /\ resp'.recent_clicks[i].clicked_at >= resp'.row.created_at

C19_NoHistory ==
  \A c \in clicks : \E u \in urls : u.id = c.url_id /\ c.clicked_at >= u.created_at

C19_ReuseWithoutHistory ==
  /\ [](C19_NoHistory)
  /\ [][C19_Deleted /\ C19_NoConflict /\ C19_Created /\ C19_Stats]_vars

\* Stats of a row that was given the id of a deleted row that had a click:
\* count 0 and no click.
C19_Witness ==
  /\ resp.op = "stats"
  /\ resp.status = "Stats"
  /\ resp.row.id = 1
  /\ urlSeq = 1
  /\ clickSeq > 0
  /\ clicks = {}
  /\ resp.row.click_count = 0
  /\ resp.recent_clicks = <<>>

====
